---- MODULE Spec2Model ----
(***************************************************************************)
(* A model of ocaml/sample_client.py: the demonstration driver of the      *)
(* "0install slave" JSON API.  The driver talks to the slave over a pair   *)
(* of pipes; each frame is a length header line followed by a JSON text.   *)
(* The driver is one Python thread: every nested wait is a recursive call  *)
(* of handle_next_chunk, so the model keeps the call stack explicitly.     *)
(*                                                                         *)
(* Writes to the slave are taken to succeed (the transport is reliable);   *)
(* reads may meet a malformed frame or the end of the stream.              *)
(***************************************************************************)
EXTENDS Integers, Sequences, FiniteSets, TLC

VARIABLES
    pc,           \* where the main program is: "boot" (line 107), "invoke" (119), "loop" (121)
    status,       \* "running", "crashed" (uncaught exception), "exited" (sys.exit)
    error,        \* the exception that ended the session
    next_ticket,  \* line 28
    callbacks,    \* line 30: ticket -> continuation
    stack,        \* handlers in progress, innermost last
    sent,         \* frames written to c.stdin, oldest first
    inbox,        \* frames the slave has written that the driver has not read
    arrived,      \* history: every frame the slave wrote, in order
    handled,      \* history: every frame get_chunk consumed, in order
    served,       \* history: the end of every handler call (lines 91-96)
    ran,          \* history: every continuation body that ran (line 100), and the tickets pending then
    resolved,     \* history: every reply that found its ticket pending (line 99)
    issuer,       \* history: which code issued each ticket of invoke, and when
    out,          \* the bytes written to c.stdin, in order
    tabled,       \* history: the keys of callbacks at every write to c.stdin
    pipe,         \* bytes of a stream that get_chunk reads, not yet read
    piped,        \* history: every write to that stream, and by whom
    closed,       \* whether the writer of that stream has closed it
    chunks        \* history: what every get_chunk on that stream did

vars == <<pc, status, error, next_ticket, callbacks, stack, sent, inbox,
          arrived, handled, served, ran, resolved, issuer, out, tabled, pipe,
          piped, closed, chunks>>

(***************************************************************************)
(* Bounds of the model.                                                    *)
(***************************************************************************)
MaxFrames == 4
MaxInbox == 2

(***************************************************************************)
(* JSON values.  Every value is a record of one shape: its kind, its text  *)
(* (a string's characters, a number's literal, a mapping entry's key) and  *)
(* its elements (a sequence's items, a mapping's entries).                 *)
(***************************************************************************)
JNull == [k |-> "null", s |-> "", e |-> <<>>]

JBool(b) == [k |-> "boolean", s |-> IF b THEN "true" ELSE "false", e |-> <<>>]

JNum(n) == [k |-> "number", s |-> ToString(n), e |-> <<>>]

JStr(x) == [k |-> "string", s |-> x, e |-> <<>>]

JSeq(items) == [k |-> "sequence", s |-> "", e |-> items]

JEntry(key, v) == [k |-> "entry", s |-> key, e |-> <<v>>]

JMap(entries) == [k |-> "mapping", s |-> "", e |-> entries]

\* The characters of the strings the model iterates over.
Chars(x) ==
    CASE x = "" -> <<>>
      [] x = "f" -> <<"f">>
      [] x = "x" -> <<"x">>
      [] x = "xy" -> <<"x", "y">>
      [] x = "2.4" -> <<"2", ".", "4">>
      [] x = "boom" -> <<"b", "o", "o", "m">>

\* Exceptions: base is "Exception" for what `except Exception` catches.
Exc(type, msg) == [base |-> "Exception", type |-> type, msg |-> msg]

SystemExit == [base |-> "BaseException", type |-> "SystemExit", msg |-> "0"]

NoError == [base |-> "", type |-> "", msg |-> ""]

Ok(v) == [ok |-> TRUE, val |-> v, exc |-> NoError]

Err(x) == [ok |-> FALSE, val |-> JNull, exc |-> x]

\* Python's iteration over a value, as `*v` and `for ... in v` do it.
Iter(v) ==
    CASE v.k = "sequence" -> Ok(v.e)
      [] v.k = "string" -> Ok([i \in 1..Len(Chars(v.s)) |-> JStr(Chars(v.s)[i])])
      [] v.k = "mapping" -> Ok([i \in 1..Len(v.e) |-> JStr(v.e[i].s)])
      [] OTHER -> Err(Exc("TypeError", "not iterable"))

\* Python's v[i], i counted from 0.
Index(v, i) ==
    CASE v.k = "sequence" ->
            IF i < Len(v.e) THEN Ok(v.e[i + 1])
            ELSE Err(Exc("IndexError", "list index out of range"))
      [] v.k = "string" ->
            IF i < Len(Chars(v.s)) THEN Ok(JStr(Chars(v.s)[i + 1]))
            ELSE Err(Exc("IndexError", "string index out of range"))
      [] v.k = "mapping" -> Err(Exc("KeyError", ToString(i)))
      [] OTHER -> Err(Exc("TypeError", "not subscriptable"))

\* str(v) of a decoded value: a string is itself, anything else is its repr.
PyStr(v) ==
    CASE v.k = "string" -> v.s
      [] v.k = "null" -> "None"
      [] v.k = "boolean" -> IF v.s = "true" THEN "True" ELSE "False"
      [] v.k = "number" -> v.s
      [] v.k = "sequence" -> IF v.e = <<>> THEN "[]" ELSE "[...]"
      [] OTHER -> IF v.e = <<>> THEN "{}" ELSE "{...}"

\* repr(v): a string is quoted.
PyRepr(v) == IF v.k = "string" THEN "'" \o v.s \o "'" ELSE PyStr(v)

\* ', '.join(args) of line 95 succeeds only over an iterable of strings.
JoinOk(args) ==
    /\ Iter(args).ok
    /\ \A i \in 1..Len(Iter(args).val) : Iter(args).val[i].k = "string"

(***************************************************************************)
(* The bytes of a frame.  A Python str is a TLA+ string, one character     *)
(* each; a byte string is a TLA+ string too, one byte each.  NonAscii is   *)
(* the one character of the model that UTF-8 encodes in two bytes, U+00E9. *)
(* The model checker keeps 7-bit characters only, so U+00E9 is written "@" *)
(* and its bytes 0xC3 and 0xA9 are written "#" and "$"; no string of the   *)
(* model uses these three characters for themselves.                       *)
(***************************************************************************)
NonAscii == "@"

\* Its two bytes, 0xC3 and 0xA9.
Utf8NonAscii == "#$"

HexDigits == "0123456789abcdef"

At(s, i) == IF i \in 1..Len(s) THEN SubSeq(s, i, i) ELSE ""

Starts(s, i, lit) == i + Len(lit) - 1 <= Len(s) /\ SubSeq(s, i, i + Len(lit) - 1) = lit

\* The first position from i on of a character of the set cs in s, or 0.
FirstOf(s, i, cs) ==
    LET hits == {j \in i..Len(s) : At(s, j) \in cs} IN
    IF hits = {} THEN 0 ELSE CHOOSE j \in hits : \A n \in hits : j <= n

RECURSIVE Hex(_)
\* '%x' % n
Hex(n) == IF n < 16 THEN At(HexDigits, n + 1)
          ELSE Hex(n \div 16) \o At(HexDigits, (n % 16) + 1)

RECURSIVE Pad(_, _)
\* the 08 of '%08x': zeros on the left up to the width, never a cut
Pad(s, w) == IF Len(s) >= w THEN s ELSE Pad("0" \o s, w)

Escape_none(x) == x

RECURSIVE Escape(_)
\* json.dumps of the characters of a string (ensure_ascii is on by default)
Escape(x) ==
    LET i == FirstOf(x, 1, {"\"", "\\", "\n", NonAscii}) IN
    IF i = 0 THEN x
    ELSE LET c == At(x, i) IN
         SubSeq(x, 1, i - 1)
         \o (CASE c = "\"" -> "\\\""
               [] c = "\\" -> "\\\\"
               [] c = "\n" -> "\\n"
               [] OTHER -> "\\u00e9")
         \o Escape(SubSeq(x, i + 1, Len(x)))

RECURSIVE dumps(_), DumpItems(_), DumpEntries(_)
\* json.dumps(value) of line 44, with the default separators ', ' and ': '
dumps(v) ==
    CASE v.k = "string" -> "\"" \o Escape(v.s) \o "\""
      [] v.k = "sequence" -> "[" \o DumpItems(v.e) \o "]"
      [] v.k = "mapping" -> "{" \o DumpEntries(v.e) \o "}"
      [] v.k = "null" -> "null"
      [] OTHER -> v.s

DumpItems(items) ==
    IF items = <<>> THEN ""
    ELSE IF Len(items) = 1 THEN dumps(items[1])
    ELSE dumps(items[1]) \o ", " \o DumpItems(Tail(items))

DumpEntries(entries) ==
    IF entries = <<>> THEN ""
    ELSE LET one == "\"" \o Escape(entries[1].s) \o "\": " \o dumps(entries[1].e[1]) IN
         IF Len(entries) = 1 THEN one ELSE one \o ", " \o DumpEntries(Tail(entries))

RECURSIVE encode(_)
\* str.encode('utf-8')
encode(x) ==
    LET i == FirstOf(x, 1, {NonAscii}) IN
    IF i = 0 THEN x
    ELSE SubSeq(x, 1, i - 1) \o Utf8NonAscii \o encode(SubSeq(x, i + 1, Len(x)))

RECURSIVE decode(_)
\* bytes.decode('utf-8') of line 38
decode(b) ==
    LET i == FirstOf(b, 1, {At(Utf8NonAscii, 1), At(Utf8NonAscii, 2)}) IN
    IF i = 0 THEN [ok |-> TRUE, text |-> b]
    ELSE IF ~Starts(b, i, Utf8NonAscii) THEN [ok |-> FALSE, text |-> ""]
    ELSE LET r == decode(SubSeq(b, i + 2, Len(b))) IN
         [ok |-> r.ok, text |-> SubSeq(b, 1, i - 1) \o NonAscii \o r.text]

RECURSIVE HexValue(_, _)
\* the value of the hexadecimal digits x after the digits worth acc; -1 if
\* some character is no digit
HexValue(x, acc) ==
    IF x = "" THEN acc
    ELSE LET d == {i \in 1..16 : At(HexDigits, i) = Head(x)} IN
         IF d = {} THEN -1 ELSE HexValue(Tail(x), 16 * acc + (CHOOSE i \in d : TRUE) - 1)

\* int(x, 16) of line 36
int16(x) ==
    IF x = "" \/ HexValue(x, 0) < 0
    THEN Err(Exc("ValueError", "invalid literal for int()"))
    ELSE [ok |-> TRUE, val |-> HexValue(x, 0), exc |-> NoError]

(***************************************************************************)
(* json.loads: a parser of the JSON text x from position i on.  A result   *)
(* is the value read and the position after it.                            *)
(***************************************************************************)
Parsed(v, i) == [ok |-> TRUE, val |-> v, pos |-> i]

NotParsed == [ok |-> FALSE, val |-> JNull, pos |-> 0]

RECURSIVE SkipSpace(_, _)
SkipSpace(x, i) ==
    IF At(x, i) \in {" ", "\n", "\t", "\r"} THEN SkipSpace(x, i + 1) ELSE i

RECURSIVE Digits(_, _)
\* the position after the digits that start at i
Digits(x, i) == IF At(x, i) \in {At(HexDigits, d) : d \in 1..10} THEN Digits(x, i + 1) ELSE i

RECURSIVE Quoted(_, _, _)
\* the characters of a string literal from position i (after the opening
\* quote) on, appended to acc
Quoted(x, i, acc) ==
    LET j == FirstOf(x, i, {"\"", "\\", "\n"})
        lit == acc \o SubSeq(x, i, j - 1)
    IN  IF j = 0 \/ At(x, j) = "\n" THEN [ok |-> FALSE, text |-> "", pos |-> 0]
        ELSE IF At(x, j) = "\"" THEN [ok |-> TRUE, text |-> lit, pos |-> j + 1]
        ELSE CASE At(x, j + 1) = "\"" -> Quoted(x, j + 2, lit \o "\"")
               [] At(x, j + 1) = "\\" -> Quoted(x, j + 2, lit \o "\\")
               [] At(x, j + 1) = "n" -> Quoted(x, j + 2, lit \o "\n")
               [] Starts(x, j + 1, "u00e9") -> Quoted(x, j + 6, lit \o NonAscii)
               [] OTHER -> [ok |-> FALSE, text |-> "", pos |-> 0]

RECURSIVE Value(_, _), Items(_, _, _), Members(_, _, _)
Value(x, i0) ==
    LET i == SkipSpace(x, i0)
        c == At(x, i)
    IN  CASE Starts(x, i, "null") -> Parsed(JNull, i + 4)
          [] Starts(x, i, "true") -> Parsed(JBool(TRUE), i + 4)
          [] Starts(x, i, "false") -> Parsed(JBool(FALSE), i + 5)
          [] c = "\"" ->
                LET q == Quoted(x, i + 1, "") IN
                IF q.ok THEN Parsed(JStr(q.text), q.pos) ELSE NotParsed
          [] c = "[" ->
                IF At(x, SkipSpace(x, i + 1)) = "]"
                THEN Parsed(JSeq(<<>>), SkipSpace(x, i + 1) + 1)
                ELSE Items(x, i + 1, <<>>)
          [] c = "{" ->
                IF At(x, SkipSpace(x, i + 1)) = "}"
                THEN Parsed(JMap(<<>>), SkipSpace(x, i + 1) + 1)
                ELSE Members(x, i + 1, <<>>)
          [] OTHER ->
                LET j == IF c = "-" THEN i + 1 ELSE i IN
                IF Digits(x, j) > j
                THEN Parsed([k |-> "number", s |-> SubSeq(x, i, Digits(x, j) - 1), e |-> <<>>],
                            Digits(x, j))
                ELSE NotParsed

Items(x, i, acc) ==
    LET v == Value(x, i) IN
    IF ~v.ok THEN NotParsed
    ELSE LET j == SkipSpace(x, v.pos) IN
         CASE At(x, j) = "," -> Items(x, j + 1, Append(acc, v.val))
           [] At(x, j) = "]" -> Parsed(JSeq(Append(acc, v.val)), j + 1)
           [] OTHER -> NotParsed

Members(x, i, acc) ==
    LET j == SkipSpace(x, i) IN
    IF At(x, j) # "\"" THEN NotParsed
    ELSE LET q == Quoted(x, j + 1, "") IN
         IF ~q.ok \/ At(x, SkipSpace(x, q.pos)) # ":" THEN NotParsed
         ELSE LET v == Value(x, SkipSpace(x, q.pos) + 1) IN
              IF ~v.ok THEN NotParsed
              ELSE LET n == SkipSpace(x, v.pos) IN
                   CASE At(x, n) = "," -> Members(x, n + 1, Append(acc, JEntry(q.text, v.val)))
                     [] At(x, n) = "}" -> Parsed(JMap(Append(acc, JEntry(q.text, v.val))), n + 1)
                     [] OTHER -> NotParsed

\* json.loads(text) of line 38: one value and nothing but white space after it
loads(x) ==
    LET v == Value(x, 1) IN
    IF v.ok /\ SkipSpace(x, v.pos) = Len(x) + 1 THEN Ok(v.val)
    ELSE Err(Exc("ValueError", "JSONDecodeError"))

\* '0x%08x\n' % n of line 46
Header(n) == "0x" \o Pad(Hex(n), 8) \o "\n"

\* The bytes line 46 writes for the text data: the header states len(data),
\* the number of characters.
Encoded(data) == encode(Header(Len(data)) \o data)

\* c.stdout.readline() of line 33 on the unread bytes b: up to the first
\* newline, or all that is left of a stream that has ended.
readline(b) ==
    LET ends == {i \in 1..Len(b) : At(b, i) = "\n"} IN
    IF ends = {} THEN [line |-> b, rest |-> ""]
    ELSE LET n == CHOOSE i \in ends : \A j \in ends : i <= j IN
         [line |-> SubSeq(b, 1, n), rest |-> SubSeq(b, n + 1, Len(b))]

\* c.stdout.read(n) of line 38: n bytes, or what is left of a stream that
\* has ended.
read(b, n) ==
    LET got == IF n < Len(b) THEN n ELSE Len(b) IN
    [data |-> SubSeq(b, 1, got), rest |-> SubSeq(b, got + 1, Len(b))]

\* What a get_chunk call on the unread bytes b did: its result r, the bytes
\* it took off the stream, the payload length the header declared and the
\* payload bytes it received.
Chunk(b, r, rest, declared, received) ==
    [ok |-> r.ok, val |-> r.val, exc |-> r.exc, rest |-> rest,
     taken |-> SubSeq(b, 1, Len(b) - Len(rest)),
     declared |-> declared, received |-> received]

\* get_chunk, lines 32-41, on the unread bytes b of c.stdout.
get_chunk_bytes(b) ==
    LET l == readline(b) IN
    IF ~Starts(l.line, 1, "0x") \/ At(l.line, Len(l.line)) # "\n"
    THEN Chunk(b, Err(Exc("AssertionError", "")), l.rest, 0, 0)
    ELSE LET n == int16(SubSeq(l.line, 3, Len(l.line) - 1)) IN
         IF ~n.ok THEN Chunk(b, Err(n.exc), l.rest, 0, 0)
         ELSE LET r == read(l.rest, n.val)
                  d == decode(r.data)
              IN  IF ~d.ok
                  THEN Chunk(b, Err(Exc("ValueError", "UnicodeDecodeError")),
                             r.rest, n.val, Len(r.data))
                  ELSE Chunk(b, loads(d.text), r.rest, n.val, Len(r.data))

\* Whether a get_chunk on the unread bytes b returns rather than waits for
\* more: the stream has ended, or the header line is there and is
\* malformed, or it is there with all the payload it declares.
Returns(b, ended) ==
    LET l == readline(b)
        n == int16(SubSeq(l.line, 3, Len(l.line) - 1))
    IN  IF ended THEN TRUE
        ELSE IF At(l.line, Len(l.line)) # "\n" THEN FALSE
        ELSE IF ~Starts(l.line, 1, "0x") \/ ~n.ok THEN TRUE
        ELSE n.val <= Len(l.rest)

(***************************************************************************)
(* Frames on the wire.  hdr is the header line as readline returns it:     *)
(* "0x" a well-formed header, "eof" the empty line of a closed stream,     *)
(* "noprefix", "nonewline", "badhex" the malformed ones.  text says        *)
(* whether the payload bytes are a JSON text, data is the value they       *)
(* decode to.                                                              *)
(***************************************************************************)
Frame(v) == [hdr |-> "0x", text |-> "json", data |-> v]

BadFrame(h, t) == [hdr |-> h, text |-> t, data |-> JNull]

\* get_chunk, lines 32-41.
get_chunk(w) ==
    CASE w.hdr \in {"eof", "noprefix"} -> Err(Exc("AssertionError", ""))
      [] w.hdr = "nonewline" -> Err(Exc("AssertionError", ""))
      [] w.hdr = "badhex" -> Err(Exc("ValueError", "invalid literal for int()"))
      [] w.text # "json" -> Err(Exc("ValueError", "JSONDecodeError"))
      [] OTHER -> Ok(w.data)

send_chunk_payload_first(m, value) ==
    [m EXCEPT !.sent = Append(@, Frame(value)),
              !.tabled = Append(@, DOMAIN m.callbacks),
              !.out = @ \o encode(dumps(value) \o Header(Len(dumps(value))))]

\* send_chunk, lines 43-47, on the machine state m.
send_chunk(m, value) ==
    [m EXCEPT !.sent = Append(@, Frame(value)),
              !.tabled = Append(@, DOMAIN m.callbacks),
              !.out = @ \o Encoded(dumps(value))]

Invocation(t, op, args) == JSeq(<<JStr("invoke"), t, JStr(op), args>>)

Reply(t, outcome, payload) == JSeq(<<JStr("return"), t, JStr(outcome), payload>>)

(***************************************************************************)
(* The machine state m gathers the variables the driver's code changes.    *)
(***************************************************************************)
Put(f, key, v) == [x \in DOMAIN f \cup {key} |-> IF x = key THEN v ELSE f[x]]

Remove_keeps(f, key) == f

Remove_all(f, key) == [x \in {} |-> f[x]]

Remove(f, key) == [x \in DOMAIN f \ {key} |-> f[x]]

Top(m) == m.stack[Len(m.stack)]

Pop(m) == [m EXCEPT !.stack = SubSeq(@, 1, Len(@) - 1)]

Push(m, a) == [m EXCEPT !.stack = Append(@, a)]

\* No line read from the user yet.
NoAnswer == "<none>"

\* The frame of one handler call: the invocation being served (t, op, args),
\* what the handler is doing ("call" running, "prompt" in input(), "pump"
\* driving handle_next_chunk for the reply to `wait`), the line of input()
\* it ended on, and the number of frames written and read when
\* handle_next_chunk entered.
Activation(m, t, op, args) ==
    [t |-> t, op |-> op, args |-> args, kind |-> "call", wait |-> "",
     done |-> FALSE, got |-> JNull, keys |-> JNull, before |-> Len(m.sent),
     frame |-> m.reads, answer |-> NoAnswer]

\* History of how each handler call ended.
Finish(m, a, outcome, val) ==
    [m EXCEPT !.served = Append(@,
        [t |-> a.t, op |-> a.op, args |-> a.args, kind |-> a.kind,
         outcome |-> outcome, val |-> val, frame |-> a.frame,
         before |-> a.before, after |-> Len(m.sent), answer |-> a.answer])]

reply_ok_own_ticket(m, ticket, response) ==
    send_chunk(m, Reply(JStr(ToString(m.next_ticket)), "ok", response))

\* reply_ok, lines 57-58.
reply_ok(m, ticket, response) == send_chunk(m, Reply(ticket, "ok", response))

\* reply_fail, lines 60-61.
reply_fail(m, ticket, response) == send_chunk(m, Reply(ticket, "fail", response))

invoke_same_ticket(m, on_success, op, args, who) ==
    LET ticket == ToString(m.next_ticket)
        m1 == [m EXCEPT !.callbacks = Put(@, ticket, on_success),
                        !.issuer = Put(@, ticket, [who |-> who, frame |-> m.reads])]
    IN  send_chunk(m1, Invocation(JStr(ticket), op, JSeq(args)))

invoke_sends_first(m, on_success, op, args, who) ==
    LET ticket == ToString(m.next_ticket)
        m1 == send_chunk([m EXCEPT !.next_ticket = @ + 1],
                         Invocation(JStr(ticket), op, JSeq(args)))
    IN  [m1 EXCEPT !.callbacks = Put(@, ticket, on_success),
                   !.issuer = Put(@, ticket, [who |-> who, frame |-> m.reads])]

\* invoke, lines 49-55; `who` is the code that issues it (history only).
invoke(m, on_success, op, args, who) ==
    LET ticket == ToString(m.next_ticket)
        m1 == [m EXCEPT !.next_ticket = @ + 1,
                        !.callbacks = Put(@, ticket, on_success),
                        !.issuer = Put(@, ticket, [who |-> who, frame |-> m.reads])]
    IN  send_chunk(m1, Invocation(JStr(ticket), op, JSeq(args)))

RECURSIVE Resume(_), Propagate(_, _), Except(_, _, _)

\* handle_next_chunk returned normally to its caller: the main program, or
\* the loop of a handler that drives it until its continuation has fired.
\* Such a handler returns what it got, and line 93 replies.
Resume(m) ==
    IF m.stack = <<>> THEN m
    ELSE LET a == Top(m) IN
         IF a.kind = "pump" /\ a.done
         THEN Resume(Finish(reply_ok(Pop(m), a.t, a.got), a, "ok", a.got))
         ELSE m

\* An exception leaves handle_next_chunk: uncaught in the main program it
\* ends the process; inside a handler it reaches the except clause of the
\* handle_next_chunk that called the handler.
Propagate(m, ex) ==
    IF m.stack = <<>>
    THEN [m EXCEPT !.status = IF ex.type = "SystemExit" THEN "exited" ELSE "crashed",
                   !.error = ex]
    ELSE Except(Pop(m), Top(m), ex)

\* Lines 94-96 for the handler call a (already off the stack).  SystemExit
\* is no Exception; line 95 joins the arguments before line 96 replies.
Except(m, a, ex) ==
    IF ex.base # "Exception"
    THEN Propagate(Finish(m, a, "raised", JStr(ex.type)), ex)
    ELSE IF ~JoinOk(a.args)
    THEN Propagate(Finish(m, a, "raised", JStr("TypeError")),
                   Exc("TypeError", "sequence item: expected str instance"))
    ELSE Resume(Finish(reply_fail(m, a.t, JStr(ex.msg)), a, "fail", JStr(ex.msg)))

(***************************************************************************)
(* Handlers.  A handler returns a value, raises, or is left waiting: in    *)
(* input() (confirm-keys), or driving handle_next_chunk for a reply.       *)
(***************************************************************************)
Return(v) == [do |-> "return", val |-> v, exc |-> NoError]

Raise(x) == [do |-> "raise", val |-> JNull, exc |-> x]

Wait(how, v) == [do |-> how, val |-> v, exc |-> NoError]

\* do_select_api_version, lines 63-65.
do_select_api_version(argv) ==
    IF Len(argv) # 1
    THEN Raise(Exc("TypeError", "do_select_api_version() takes 1 positional argument"))
    ELSE Return(JStr("2.5"))

\* The hints of one key print (lines 72-73) when they are an iterable of
\* pairs whose first member is a string.
HintsPrint(hints) ==
    /\ Iter(hints).ok
    /\ \A j \in 1..Len(Iter(hints).val) :
          LET h == Iter(Iter(hints).val[j]) IN
          h.ok /\ Len(h.val) = 2 /\ h.val[1].k = "string"

\* do_confirm_keys, lines 67-77, up to the first input().
do_confirm_keys(argv) ==
    IF Len(argv) # 2
    THEN Raise(Exc("TypeError", "do_confirm_keys() takes 2 positional arguments"))
    ELSE LET keys == argv[2] IN
         IF keys.k # "mapping"
         THEN Raise(Exc("AttributeError", "object has no attribute 'items'"))
         ELSE IF \E i \in 1..Len(keys.e) : ~HintsPrint(keys.e[i].e[1])
         THEN Raise(Exc("ValueError", "cannot unpack hints"))
         ELSE Wait("prompt", keys)

\* The lambda of line 82.
update_key_info(argv) == Return(JNull)

\* A handler of the kind section 4.4 of the design describes: it issues an
\* outbound invocation and drives handle_next_chunk until its own
\* continuation has fired, then returns what the continuation received.
do_relay(argv) == Wait("pump", JNull)

\* handlers, lines 79-83.
handlers ==
    [op \in {"select-api-version", "confirm-keys", "update-key-info"} |->
        CASE op = "select-api-version" -> "do_select_api_version"
          [] op = "confirm-keys" -> "do_confirm_keys"
          [] OTHER -> "update_key_info"]

\* The table with the relaying handler registered as well.
Registry == [op \in DOMAIN handlers \cup {"relay"} |->
                IF op \in DOMAIN handlers THEN handlers[op] ELSE "do_relay"]

Apply(fn, argv) ==
    CASE fn = "do_select_api_version" -> do_select_api_version(argv)
      [] fn = "do_confirm_keys" -> do_confirm_keys(argv)
      [] fn = "update_key_info" -> update_key_info(argv)
      [] OTHER -> do_relay(argv)

\* handlers[op](*args) of line 92: the lookup, the unpacking, the call.
Call(op, args) ==
    IF op.k \in {"sequence", "mapping"}
    THEN Raise(Exc("TypeError", "unhashable type"))
    ELSE IF ~(op.k = "string" /\ op.s \in DOMAIN Registry)
    THEN Raise(Exc("KeyError", PyRepr(op)))
    ELSE IF ~Iter(args).ok
    THEN Raise(Iter(args).exc)
    ELSE Apply(Registry[op.s], Iter(args).val)

\* Lines 88-96: serve the invocation (t, op, args).
Serve(m, t, op, args) ==
    LET a == Activation(m, t, op, args)
        r == Call(op, args)
    IN  CASE r.do = "return" -> Resume(Finish(reply_ok(m, t, r.val), a, "ok", r.val))
          [] r.do = "raise" -> Except(m, a, r.exc)
          [] r.do = "prompt" -> Push(m, [a EXCEPT !.kind = "prompt", !.keys = r.val])
          [] OTHER ->
               LET ticket == ToString(m.next_ticket) IN
               Push(invoke(m, "on_reply", "peer-op", <<>>, ticket),
                    [a EXCEPT !.kind = "pump", !.wait = ticket])

(***************************************************************************)
(* Continuations.                                                          *)
(***************************************************************************)
Ran(m, ticket, cb, argv) ==
    [m EXCEPT !.ran = Append(@, [ticket |-> ticket, cb |-> cb, args |-> argv,
                                 frame |-> m.reads, written |-> Len(m.sent),
                                 pending |-> DOMAIN m.callbacks])]

\* show_selections, lines 113-116: two parameters, then sys.exit(0).
show_selections(m, ticket, argv) ==
    IF Len(argv) # 2
    THEN Propagate(m, Exc("TypeError", "show_selections() takes 2 positional arguments"))
    ELSE Propagate(Ran(m, ticket, "show_selections", argv), SystemExit)

\* The continuation of do_relay: it records what it received for the handler
\* call that waits for `ticket`, if that call is still in progress.
on_reply(m, ticket, argv) ==
    Resume([Ran(m, ticket, "on_reply", argv) EXCEPT
        !.stack = [i \in 1..Len(@) |->
                     IF @[i].wait = ticket
                     THEN [@[i] EXCEPT !.done = TRUE, !.got = JSeq(argv)]
                     ELSE @[i]]])

Continue_whole(m, ticket, cb, payload) ==
    IF cb = "show_selections" THEN show_selections(m, ticket, <<payload>>)
    ELSE on_reply(m, ticket, <<payload>>)

\* cb(*api_request[3]) of line 100.
Continue(m, ticket, cb, payload) ==
    IF ~Iter(payload).ok THEN Propagate(m, Iter(payload).exc)
    ELSE IF cb = "show_selections" THEN show_selections(m, ticket, Iter(payload).val)
    ELSE on_reply(m, ticket, Iter(payload).val)

\* The code a failure raised by handle_next_chunk lands in: the handler
\* whose loop called it (named by the ticket it waits for), else the main program.
Landing(m) == IF m.stack = <<>> THEN "main" ELSE Top(m).wait

\* Lines 98-103: a reply.
Returned(m, v) ==
    LET t == Index(v, 1) IN
    IF ~t.ok THEN Propagate(m, t.exc)
    ELSE IF t.val.k \in {"sequence", "mapping"}
    THEN Propagate(m, Exc("TypeError", "unhashable type"))
    ELSE IF ~(t.val.k = "string" /\ t.val.s \in DOMAIN m.callbacks)
    THEN Propagate(m, Exc("KeyError", PyRepr(t.val)))
    ELSE LET ticket == t.val.s
             cb == m.callbacks[ticket]
             outcome == Index(v, 2)
             payload == Index(v, 3)
             m1 == [m EXCEPT !.callbacks = Remove(@, ticket),
                             !.resolved = Append(@,
                                [ticket |-> ticket, cb |-> cb, outcome |-> outcome.val,
                                 payload |-> payload.val, frame |-> m.reads,
                                 to |-> Landing(m), by |-> m.issuer[ticket].who])]
         IN  IF ~outcome.ok THEN Propagate(m1, outcome.exc)
             ELSE IF outcome.val = JStr("ok")
             THEN IF ~payload.ok THEN Propagate(m1, payload.exc)
                  ELSE Continue(m1, ticket, cb, payload.val)
             ELSE IF outcome.val # JStr("fail")
             THEN Propagate(m1, Exc("AssertionError", "api_request"))
             ELSE IF ~payload.ok THEN Propagate(m1, payload.exc)
             ELSE Propagate(m1, Exc("Exception", PyStr(payload.val)))

\* handle_next_chunk, lines 85-105, after get_chunk returned v.
Dispatch(m, v) ==
    LET tag == Index(v, 0)
        t == Index(v, 1)
        op == Index(v, 2)
        args == Index(v, 3)
    IN  IF ~tag.ok THEN Propagate(m, tag.exc)
        ELSE IF tag.val = JStr("invoke")
        THEN IF ~t.ok THEN Propagate(m, t.exc)
             ELSE IF ~op.ok THEN Propagate(m, op.exc)
             ELSE IF ~args.ok THEN Propagate(m, args.exc)
             ELSE Serve(m, t.val, op.val, args.val)
        ELSE IF tag.val = JStr("return") THEN Returned(m, v)
        ELSE Propagate(m, Exc("AssertionError", "api_request"))

\* handle_next_chunk, lines 85-105, on the frame w that get_chunk reads.
handle_next_chunk(m, w) ==
    LET m1 == [m EXCEPT !.reads = @ + 1] IN
    IF get_chunk(w).ok THEN Dispatch(m1, get_chunk(w).val)
    ELSE Propagate(m1, get_chunk(w).exc)

(***************************************************************************)
(* The slave's side of the pipes: the frames it may write.                 *)
(***************************************************************************)
KeyInfo == JMap(<<JEntry("k1", JSeq(<<JSeq(<<JStr("good"), JStr("known")>>)>>))>>)

Selections == JSeq(<<JStr("ok"), JStr("sels")>>)

PeerInvocations ==
    {Invocation(JStr("7"), "select-api-version", JSeq(<<JStr("2.4")>>)),
     Invocation(JStr("8"), "update-key-info", JSeq(<<>>)),
     Invocation(JStr("7"), "select-api-version", JSeq(<<JStr("2.4"), JNum(5)>>)),
     Invocation(JStr("8"), "confirm-keys", JSeq(<<JStr("f"), KeyInfo>>)),
     Invocation(JStr("8"), "confirm-keys", JSeq(<<JStr("f"), JStr("x")>>)),
     Invocation(JStr("8"), "no-such-op", JSeq(<<JStr("x")>>))}

PeerReplies ==
    {Reply(JStr(t), "ok", Selections) : t \in {"1", "2", "9"}}
    \cup {Reply(JStr("1"), "fail", JStr("boom"))}
    \cup {Reply(JStr("1"), "ok", p) : p \in {JNull, JStr("xy"), JSeq(<<JStr("x")>>)}}
    \cup {Reply(JStr("1"), "maybe", JNull)}

PeerFrames ==
    {Frame(v) : v \in PeerInvocations \cup PeerReplies \cup {JSeq(<<JStr("notify")>>)}}
    \cup {BadFrame("badhex", "json"), BadFrame("0x", "garbage"), BadFrame("eof", "")}

\* The invocation of the relaying handler.
RelayFrames == {Frame(Invocation(JStr("7"), "relay", JSeq(<<>>)))}

\* What the user may do at the prompt of line 75: type a line, or close
\* the terminal's input (EndOfInput), on which input() raises EOFError.
EndOfInput == "^D"

Answers == {"", "Y", "n", "q", EndOfInput}

(***************************************************************************)
(* The state machine.                                                      *)
(***************************************************************************)
Empty == [x \in {} |-> ""]

\* Lines 28-30 and 107: the module's globals, the first read not yet done.
Init ==
    /\ pc = "boot"
    /\ status = "running"
    /\ error = NoError
    /\ next_ticket = 1
    /\ callbacks = Empty
    /\ stack = <<>>
    /\ sent = <<>>
    /\ inbox = <<>>
    /\ arrived = <<>>
    /\ handled = <<>>
    /\ served = <<>>
    /\ ran = <<>>
    /\ resolved = <<>>
    /\ issuer = Empty
    /\ out = ""
    /\ tabled = <<>>
    /\ pipe = ""
    /\ piped = <<>>
    /\ closed = FALSE
    /\ chunks = <<>>

Machine ==
    [pc |-> pc, status |-> status, error |-> error, next_ticket |-> next_ticket,
     callbacks |-> callbacks, stack |-> stack, sent |-> sent, served |-> served,
     ran |-> ran, resolved |-> resolved, issuer |-> issuer, reads |-> Len(handled),
     out |-> out, tabled |-> tabled]

\* The main program's handle_next_chunk of line 107 returned: go on to line 119.
Advance(m) ==
    IF m.status = "running" /\ m.stack = <<>> /\ m.pc = "boot"
    THEN [m EXCEPT !.pc = "invoke"]
    ELSE m

Install(m) ==
    /\ pc' = m.pc
    /\ status' = m.status
    /\ error' = m.error
    /\ next_ticket' = m.next_ticket
    /\ callbacks' = m.callbacks
    /\ stack' = m.stack
    /\ sent' = m.sent
    /\ served' = m.served
    /\ ran' = m.ran
    /\ resolved' = m.resolved
    /\ issuer' = m.issuer
    /\ out' = m.out
    /\ tabled' = m.tabled

\* The slave writes one frame to its stdout (the pipe of line 26).
PeerSend(w) ==
    /\ status = "running"
    /\ Len(arrived) < MaxFrames
    /\ Len(inbox) < MaxInbox
    /\ \A i \in 1..Len(arrived) : arrived[i].hdr # "eof"
    /\ inbox' = Append(inbox, w)
    /\ arrived' = Append(arrived, w)
    /\ UNCHANGED <<pc, status, error, next_ticket, callbacks, stack, sent,
                   handled, served, ran, resolved, issuer, out, tabled, pipe,
                   piped, closed, chunks>>

\* c.stdout.readline() and c.stdout.read() of lines 33 and 38 take the
\* oldest unread frame off the pipe.
Read(q) == [frame |-> Head(q), rest |-> Tail(q)]

\* One call of handle_next_chunk that finds a frame to read: by the main
\* program (lines 107, 122) or by the loop of a handler.
HandleNextChunk ==
    /\ status = "running"
    /\ inbox # <<>>
    /\ IF stack = <<>> THEN pc \in {"boot", "loop"} ELSE Top(Machine).kind = "pump"
    /\ Install(Advance(handle_next_chunk(Machine, Read(inbox).frame)))
    /\ inbox' = Read(inbox).rest
    /\ handled' = Append(handled, Read(inbox).frame)
    /\ UNCHANGED <<arrived, pipe, piped, closed, chunks>>

\* Lines 109-119: the main program issues its select invocation.
MainInvoke ==
    /\ status = "running"
    /\ pc = "invoke"
    /\ Install([invoke(Machine, "show_selections", "select",
                       <<JMap(<<JEntry("interface", JStr("iface"))>>), JBool(FALSE)>>,
                       "main") EXCEPT !.pc = "loop"])
    /\ UNCHANGED <<inbox, arrived, handled, pipe, piped, closed, chunks>>

\* Lines 74-77: what do_confirm_keys does with the answer r.  `r in 'Yy'`
\* holds of every substring of 'Yy'.
confirm_answer(keys, r) ==
    IF r = EndOfInput THEN Raise(Exc("EOFError", "EOF when reading a line"))
    ELSE IF r \in {"", "Y", "y", "Yy"} THEN Return(JSeq(Iter(keys).val))
    ELSE IF r \in {"", "N", "n", "Nn"} THEN Return(JSeq(<<>>))
    ELSE Wait("prompt", keys)

\* The user answers the prompt of do_confirm_keys.
Answer(r) ==
    /\ status = "running"
    /\ stack # <<>>
    /\ Top(Machine).kind = "prompt"
    /\ LET a == [Top(Machine) EXCEPT !.answer = r]
           res == confirm_answer(a.keys, r)
       IN  CASE res.do = "return" ->
                  Install(Advance(Resume(
                    Finish(reply_ok(Pop(Machine), a.t, res.val), a, "ok", res.val))))
             [] res.do = "raise" -> Install(Advance(Except(Pop(Machine), a, res.exc)))
             [] OTHER -> Install(Machine)
    /\ UNCHANGED <<inbox, arrived, handled, pipe, piped, closed, chunks>>

\* The driver with the handlers of lines 79-83.
Next ==
    \/ \E w \in PeerFrames : PeerSend(w)
    \/ HandleNextChunk
    \/ MainInvoke
    \/ \E r \in Answers : Answer(r)

Spec == Init /\ [][Next]_vars

\* The driver when the slave may also invoke the relaying handler.
NextRelay ==
    \/ \E w \in PeerFrames \cup RelayFrames : PeerSend(w)
    \/ HandleNextChunk
    \/ MainInvoke
    \/ \E r \in Answers : Answer(r)

SpecRelay == Init /\ [][NextRelay]_vars

(***************************************************************************)
(* Properties.                                                             *)
(***************************************************************************)
IsMessage(w, tag) ==
    /\ get_chunk(w).ok
    /\ w.data.k = "sequence"
    /\ Len(w.data.e) = 4
    /\ w.data.e[1] = JStr(tag)

IsInvocation(w) == IsMessage(w, "invoke")

IsReply(w) == IsMessage(w, "return")

\* The invocation frames written with ticket t.
Invoked(t) == {i \in 1..Len(sent) : IsInvocation(sent[i]) /\ sent[i].data.e[2] = JStr(t)}

\* What each handler of lines 79-83 returns when it returns.
Results(op, args) ==
    CASE op = JStr("select-api-version") -> {JStr("2.5")}
      [] op = JStr("update-key-info") -> {JNull}
      [] op = JStr("confirm-keys") -> {JSeq(<<>>), JSeq(Iter(args.e[2]).val)}
      [] OTHER -> {}

\* C1: every inbound invocation whose handler returned R normally was
\* answered by the frame ["return", T, "ok", R] with T the ticket of the
\* invocation frame, and for the handlers of lines 79-83 that frame is the
\* only one written during the call of handle_next_chunk.
C1_OkReplyEchoesTicketAndResult ==
    \A i \in 1..Len(served) :
        served[i].outcome = "ok" =>
            /\ served[i].after \in 1..Len(sent)
            /\ sent[served[i].after] = Frame(Reply(served[i].t, "ok", served[i].val))
            /\ IsInvocation(handled[served[i].frame])
            /\ handled[served[i].frame].data.e[2] = served[i].t
            /\ served[i].kind # "pump" =>
                  /\ served[i].after = served[i].before + 1
                  /\ served[i].val \in Results(served[i].op, served[i].args)

C1_Witness ==
    \E i \in 1..Len(served) :
        /\ served[i].outcome = "ok"
        /\ served[i].op = JStr("update-key-info")
        /\ served[i].t = JStr("8")
        /\ status = "running"

\* C2: every handler call that raised was answered by exactly one frame
\* ["return", T, "fail", D], whatever the arguments, and the error did not
\* leave handle_next_chunk.
C2_HandlerErrorRepliesFail ==
    \A i \in 1..Len(served) :
        (served[i].kind \in {"call", "prompt"} /\ served[i].outcome # "ok") =>
            /\ served[i].outcome = "fail"
            /\ served[i].after = served[i].before + 1
            /\ sent[served[i].after] = Frame(Reply(served[i].t, "fail", served[i].val))

\* C3: a fail reply for a pending ticket never runs the continuation, and
\* its error is raised to the code that issued that ticket and to no other.
C3_FailureRaisedOnlyToIssuer ==
    \A i \in 1..Len(resolved) :
        resolved[i].outcome = JStr("fail") =>
            /\ resolved[i].to = resolved[i].by
            /\ \A j \in 1..Len(ran) : ran[j].ticket # resolved[i].ticket

\* The continuation invoke registered for ticket t.
Registered(t) ==
    IF \E i \in Invoked(t) : sent[i].data.e[3] = JStr("select")
    THEN "show_selections" ELSE "on_reply"

\* The number of positional arguments a continuation accepts.
Accepts(cb, n) == cb = "show_selections" => n = 2

RunsOf(r) == {j \in 1..Len(ran) : ran[j].ticket = r.ticket /\ ran[j].frame = r.frame}

\* C4 as stated: an ok reply for a pending ticket runs the continuation
\* registered for it exactly once, with the payload as its value.
C4_ContinuationReceivesPayload ==
    \A i \in 1..Len(resolved) :
        resolved[i].outcome = JStr("ok") =>
            /\ Cardinality(RunsOf(resolved[i])) = 1
            /\ \A j \in RunsOf(resolved[i]) :
                  /\ ran[j].cb = Registered(resolved[i].ticket)
                  /\ ran[j].args = <<resolved[i].payload>>

\* C4 amended: an ok reply for a pending ticket runs no continuation but
\* the one registered for it, with the elements of the payload as its
\* positional arguments: exactly once when the payload is iterable and has
\* as many elements as the continuation takes, and not at all otherwise.
\* No continuation runs without such a reply.
C4_ContinuationReceivesElements ==
    /\ \A i \in 1..Len(resolved) :
          resolved[i].outcome = JStr("ok") =>
              LET p == Iter(resolved[i].payload)
                  cb == Registered(resolved[i].ticket)
              IN  /\ resolved[i].cb = cb
                  /\ IF p.ok /\ Accepts(cb, Len(p.val))
                     THEN /\ Cardinality(RunsOf(resolved[i])) = 1
                          /\ \A j \in RunsOf(resolved[i]) :
                                ran[j].cb = cb /\ ran[j].args = p.val
                     ELSE RunsOf(resolved[i]) = {}
    /\ \A j \in 1..Len(ran) :
          \E i \in 1..Len(resolved) :
              /\ resolved[i].outcome = JStr("ok")
              /\ j \in RunsOf(resolved[i])
    /\ \A j, k \in 1..Len(ran) : ran[j].ticket = ran[k].ticket => j = k

C4_Witness ==
    /\ status = "exited"
    /\ \E i \in 1..Len(resolved) :
          /\ resolved[i].outcome = JStr("ok")
          /\ resolved[i].payload = Selections
          /\ \E j \in RunsOf(resolved[i]) :
                /\ ran[j].cb = "show_selections"
                /\ ran[j].args = <<JStr("ok"), JStr("sels")>>

\* A well-formed reply whose ticket is not a key of the table cbs.
UnknownReply(w, cbs) ==
    /\ IsReply(w)
    /\ ~(w.data.e[2].k = "string" /\ w.data.e[2].s \in DOMAIN cbs)

\* C5: reading a reply whose ticket is not pending ends the session, runs
\* no continuation and writes no frame.
C5_UnknownTicketFatal ==
    [][(inbox # <<>> /\ handled' # handled /\ UnknownReply(Head(inbox), callbacks)) =>
          (status' = "crashed" /\ sent' = sent /\ ran' = ran)]_vars

\* C6: every ticket in the callbacks table has exactly one invocation frame
\* written for it and no reply processed.
C6_CallbacksAreInFlight ==
    \A t \in DOMAIN callbacks :
        /\ Cardinality(Invoked(t)) = 1
        /\ \A j \in 1..Len(resolved) : resolved[j].ticket # t

C6_Witness ==
    /\ DOMAIN callbacks = {"1"}
    /\ issuer["1"].who = "main"
    /\ Cardinality(Invoked("1")) = 1
    /\ Len(handled) >= 2
    /\ status = "running"

\* C7: frames are handled in their order of arrival, and every invocation
\* of an operation of lines 79-83 that was read after a handler issued an
\* invocation C and before C's reply had its Reply written before C's
\* continuation ran.
C7_ServedBeforeNestedReply ==
    /\ handled \o inbox = arrived
    /\ \A j \in 1..Len(ran), p \in 1..Len(handled) :
          (/\ issuer[ran[j].ticket].who # "main"
           /\ issuer[ran[j].ticket].frame < p
           /\ p < ran[j].frame
           /\ IsInvocation(handled[p])
           /\ handled[p].data.e[3].s \in DOMAIN handlers) =>
              \E i \in 1..Len(served) :
                  /\ served[i].frame = p
                  /\ served[i].outcome \in {"ok", "fail"}
                  /\ served[i].after <= ran[j].written

\* C9: the select invocation is written only after the first frame read was
\* an invocation of select-api-version and its Reply was written first.
C9_SelectOnlyAfterVersionAgreed ==
    \A i \in 1..Len(sent) :
        (IsInvocation(sent[i]) /\ sent[i].data.e[3] = JStr("select")) =>
            /\ i > 1
            /\ handled # <<>>
            /\ IsInvocation(handled[1])
            /\ handled[1].data.e[3] = JStr("select-api-version")
            /\ sent[1] = Frame(Reply(handled[1].data.e[2], "ok", JStr("2.5")))

\* C10: a frame with a malformed header or payload, on which get_chunk
\* fails, is the last one read and ends the session.  (The end of the
\* stream is left out: what a write does after it depends on the slave.)
C10_FramingFailureFatal ==
    \A j \in 1..Len(handled) :
        (handled[j].hdr # "eof" /\ ~get_chunk(handled[j]).ok) =>
            (j = Len(handled) /\ status = "crashed")

\* The slave has written only what C8 is about: the select-api-version
\* invocation first, then well-formed invocations of operations of lines
\* 79-83.
OnlyInvocations ==
    /\ arrived # <<>>
    /\ arrived[1] = Frame(Invocation(JStr("7"), "select-api-version", JSeq(<<JStr("2.4")>>)))
    /\ \A p \in 1..Len(arrived) :
          /\ IsInvocation(arrived[p])
          /\ arrived[p].data.e[3].s \in DOMAIN handlers
          /\ arrived[p].data.e[4].k = "sequence"

\* C8, the part a finite run refutes: while the slave sends only
\* invocations, the session stays up and every invocation read has its
\* Reply written, unless its handler is at the prompt.
C8_EveryInvocationAnswered ==
    OnlyInvocations =>
        /\ status = "running"
        /\ \A p \in 1..Len(handled) :
              \/ \E i \in 1..Len(served) :
                    /\ served[i].frame = p
                    /\ served[i].outcome \in {"ok", "fail"}
                    /\ IsReply(sent[served[i].after])
                    /\ sent[served[i].after].data.e[2] = handled[p].data.e[2]
              \/ (stack # <<>> /\ Top(Machine).frame = p /\ Top(Machine).kind = "prompt")

\* The invocations read whose operation is not a key of the handlers table.
UnknownOperation(w) ==
    /\ IsInvocation(w)
    /\ ~(w.data.e[3].k = "string" /\ w.data.e[3].s \in DOMAIN handlers)

\* C11: every invocation of an operation that is not in the handlers table
\* is answered by exactly one frame ["return", T, "fail", "unknown operation"],
\* and the session goes on.
C11_UnknownOperationRepliesFail ==
    \A p \in 1..Len(handled) :
        UnknownOperation(handled[p]) =>
            \E i \in 1..Len(served) :
                /\ served[i].frame = p
                /\ served[i].outcome = "fail"
                /\ served[i].after = served[i].before + 1
                /\ sent[served[i].after] =
                      Frame(Reply(handled[p].data.e[2], "fail", JStr("unknown operation")))
                /\ status = "running" \/ p < Len(handled)

\* The tickets of the invocation frames written so far.
TicketsSent == {sent[i].data.e[2] : i \in {j \in 1..Len(sent) : IsInvocation(sent[j])}}

\* C12: no two invocation frames written in the session carry the same
\* ticket, and the ticket the next invoke will take is neither in the
\* callbacks table nor on any invocation frame written before.
C12_TicketsNeverReused ==
    /\ \A i, j \in 1..Len(sent) :
          (/\ IsInvocation(sent[i])
           /\ IsInvocation(sent[j])
           /\ sent[i].data.e[2] = sent[j].data.e[2]) => i = j
    /\ ToString(next_ticket) \notin DOMAIN callbacks
    /\ JStr(ToString(next_ticket)) \notin TicketsSent
    /\ \A t \in DOMAIN callbacks : JStr(t) \in TicketsSent

\* Three invocations issued, one of them resolved, another still pending.
C12_Witness ==
    /\ Cardinality(TicketsSent) = 3
    /\ resolved # <<>>
    /\ callbacks # Empty
    /\ status = "running"

(***************************************************************************)
(* The driver seen at the level of the bytes it writes: the slave sends    *)
(* what makes the driver write from every place it writes from (a Reply    *)
(* after a handler returned or raised, an invocation from the main         *)
(* program, an invocation from inside a handler), with a character outside *)
(* ASCII in a key that the driver sends back.                              *)
(***************************************************************************)
KeyInfoNonAscii == JMap(<<JEntry("k" \o NonAscii, JSeq(<<>>))>>)

WireFrames ==
    {Frame(v) : v \in
        {Invocation(JStr("7"), "select-api-version", JSeq(<<JStr("2.4")>>)),
         Invocation(JStr("8"), "confirm-keys", JSeq(<<JStr("f"), KeyInfoNonAscii>>)),
         Invocation(JStr("8"), "no-such-op", JSeq(<<JStr("x")>>)),
         Reply(JStr("1"), "ok", Selections),
         Reply(JStr("2"), "ok", JStr("xy"))}}
    \cup RelayFrames

NextWire ==
    \/ \E w \in WireFrames : PeerSend(w)
    \/ HandleNextChunk
    \/ MainInvoke
    \/ \E r \in Answers : Answer(r)

SpecWire == Init /\ [][NextWire]_vars

RECURSIVE FramesIn(_)
\* The byte string b cut into frames: an 11-byte header "0x", eight
\* hexadecimal digits and a newline, then as many bytes as it states.
FramesIn(b) ==
    IF b = "" THEN [ok |-> TRUE, payloads |-> <<>>]
    ELSE IF ~(Len(b) >= 11 /\ Starts(b, 1, "0x") /\ At(b, 11) = "\n")
    THEN [ok |-> FALSE, payloads |-> <<>>]
    ELSE LET n == int16(SubSeq(b, 3, 10)) IN
         IF ~n.ok \/ Len(b) < 11 + n.val THEN [ok |-> FALSE, payloads |-> <<>>]
         ELSE LET r == FramesIn(SubSeq(b, 12 + n.val, Len(b))) IN
              [ok |-> r.ok, payloads |-> <<SubSeq(b, 12, 11 + n.val)>> \o r.payloads]

\* C13: the bytes written to the slave are whole frames one after the
\* other, one for each send_chunk call in the order of the calls, each
\* header followed at once by the payload of its own call.
C13_WholeFramesWritten ==
    LET f == FramesIn(out) IN
    /\ f.ok
    /\ Len(f.payloads) = Len(sent)
    /\ \A n \in 1..Len(sent) : f.payloads[n] = encode(dumps(sent[n].data))

\* A handler issued an invocation from inside, frames were handled while it
\* waited, and its Reply was written afterwards; a Reply with a character
\* outside ASCII was written too.
C13_Witness ==
    /\ \E i \in 1..Len(served) :
          /\ served[i].kind = "pump"
          /\ served[i].outcome = "ok"
          /\ served[i].after > served[i].before + 1
    /\ \E i \in 1..Len(served) :
          /\ served[i].kind = "prompt"
          /\ served[i].val = JSeq(<<JStr("k" \o NonAscii)>>)
    /\ Len(sent) >= 3

(***************************************************************************)
(* The framing on its own: frames are put on a stream, by send_chunk or    *)
(* by a peer that writes bytes of its own, and get_chunk reads them back.  *)
(***************************************************************************)
MaxChunks == 3

\* Messages over every kind of value, with the characters json.dumps escapes.
Messages ==
    {Invocation(JStr("1"), "select",
                JSeq(<<JMap(<<JEntry("interface", JStr("i\"f\\\n" \o NonAscii))>>), JBool(FALSE)>>)),
     Invocation(JStr("2"), "peer-op", JSeq(<<>>)),
     Reply(JStr("7"), "ok", JStr("2.5")),
     Reply(JStr("8"), "ok",
           JSeq(<<JStr("k" \o NonAscii), JNum(-3), JNull, JBool(TRUE), JSeq(<<>>), JMap(<<>>)>>)),
     Reply(JStr("7"), "fail", JStr(""))}

\* What a peer may write that send_chunk would not: a header that declares
\* more than the payload that follows it, a payload cut short, a header alone.
ShortFrames ==
    LET data == dumps(Invocation(JStr("8"), "update-key-info", JSeq(<<>>))) IN
    {Header(Len(data) + 2) \o data,
     Header(Len(data)) \o SubSeq(data, 1, Len(data) - 1),
     Header(Len(data))}

\* send_chunk writes the message v to the stream.
SendChunk(v) ==
    /\ ~closed
    /\ Len(piped) < MaxChunks
    /\ LET m == send_chunk(Machine, v)
           bytes == SubSeq(m.out, Len(out) + 1, Len(m.out))
       IN  /\ Install(m)
           /\ pipe' = pipe \o bytes
           /\ piped' = Append(piped, [by |-> "send_chunk", bytes |-> bytes])
    /\ UNCHANGED <<inbox, arrived, handled, closed, chunks>>

\* A peer writes bytes of its own to the stream.
PeerWrite(bytes) ==
    /\ ~closed
    /\ Len(piped) < MaxChunks
    /\ pipe' = pipe \o bytes
    /\ piped' = Append(piped, [by |-> "peer", bytes |-> bytes])
    /\ UNCHANGED <<pc, status, error, next_ticket, callbacks, stack, sent, inbox,
                   arrived, handled, served, ran, resolved, issuer, out, tabled, closed,
                   chunks>>

\* The writer closes the stream.
Close ==
    /\ ~closed
    /\ closed' = TRUE
    /\ UNCHANGED <<pc, status, error, next_ticket, callbacks, stack, sent, inbox,
                   arrived, handled, served, ran, resolved, issuer, out, tabled, pipe,
                   piped, chunks>>

\* One call of get_chunk that returns; a failed call is the last one.
GetChunk ==
    /\ Returns(pipe, closed)
    /\ \A i \in 1..Len(chunks) : chunks[i].ok
    /\ chunks' = Append(chunks, get_chunk_bytes(pipe))
    /\ pipe' = get_chunk_bytes(pipe).rest
    /\ UNCHANGED <<pc, status, error, next_ticket, callbacks, stack, sent, inbox,
                   arrived, handled, served, ran, resolved, issuer, out, tabled, piped,
                   closed>>

NextCodec ==
    \/ \E v \in Messages : SendChunk(v)
    \/ \E bytes \in ShortFrames : PeerWrite(bytes)
    \/ Close
    \/ GetChunk

SpecCodec == Init /\ [][NextCodec]_vars

RECURSIVE Flat(_)
\* The bytes of a sequence of writes, one after the other.
Flat(writes) == IF writes = <<>> THEN "" ELSE Head(writes).bytes \o Flat(Tail(writes))

\* C14: on a stream that only send_chunk wrote to, the n-th get_chunk
\* returns the n-th message written and takes exactly the bytes of that
\* message's frame off the stream, so that what is left unread is the
\* frames of the messages not yet returned.
C14_FramingRoundTrip ==
    (\A i \in 1..Len(piped) : piped[i].by = "send_chunk") =>
        /\ Len(piped) = Len(sent)
        /\ \A n \in 1..Len(chunks) :
              n <= Len(sent) =>
                  /\ chunks[n].ok
                  /\ chunks[n].val = sent[n].data
                  /\ chunks[n].taken = piped[n].bytes
        /\ Len(chunks) <= Len(sent) =>
              pipe = Flat(SubSeq(piped, Len(chunks) + 1, Len(piped)))

\* Three messages written and read back, all of Messages' hard cases among them.
C14_Witness ==
    /\ Len(chunks) = 3
    /\ \A n \in 1..3 : chunks[n].ok /\ piped[n].by = "send_chunk"
    /\ \E n \in 1..3 : chunks[n].val.e[2] = JStr("1")
    /\ \E n \in 1..3 : chunks[n].val.e[2] = JStr("8")
    /\ pipe = ""

\* A well-formed invocation: ["invoke", ticket, operation, arguments] with a
\* string for the operation and a sequence for the arguments.
WellFormedInvocation(w) ==
    /\ IsInvocation(w)
    /\ w.data.e[3].k = "string"
    /\ w.data.e[4].k = "sequence"

\* The first frame read was the slave's select-api-version invocation.
Bootstrapped ==
    /\ handled # <<>>
    /\ handled[1] = Frame(Invocation(JStr("7"), "select-api-version", JSeq(<<JStr("2.4")>>)))

\* C15: once the ok reply to the main program's select is processed the
\* session has ended, with that frame the last one read and nothing written
\* after it; the session exits only through show_selections; and once the
\* bootstrap is done and select is written the loop stops for nothing but that, the
\* end of the stream or a fatal protocol error, so never on serving a
\* well-formed invocation.
C15_StopsOnlyOnTermination ==
    /\ \A i \in 1..Len(resolved) :
          (resolved[i].by = "main" /\ resolved[i].outcome = JStr("ok")) =>
              /\ status # "running"
              /\ resolved[i].frame = Len(handled)
              /\ \A j \in RunsOf(resolved[i]) : ran[j].written = Len(sent)
    /\ status = "exited" =>
          \E j \in 1..Len(ran) : ran[j].cb = "show_selections" /\ ran[j].frame = Len(handled)
    /\ (status = "crashed" /\ pc = "loop" /\ Bootstrapped) =>
          ~WellFormedInvocation(handled[Len(handled)])

\* C16: a get_chunk that met the end of the stream before it had received
\* as many payload bytes as the header declared has failed: it returned no
\* message, whatever bytes it had received.
C16_ShortPayloadFails ==
    \A n \in 1..Len(chunks) :
        chunks[n].received < chunks[n].declared => ~chunks[n].ok

(***************************************************************************)
(* The driver with a slave that also sends messages of other shapes than   *)
(* ["invoke", ticket, operation, [arguments]] and                         *)
(* ["return", ticket, "ok" or "fail", payload].                            *)
(***************************************************************************)
ShapeFrames ==
    {Frame(v) : v \in
        {Invocation(JStr("7"), "select-api-version", JSeq(<<JStr("2.4")>>)),
         Invocation(JStr("8"), "confirm-keys", JSeq(<<JStr("f"), KeyInfo>>)),
         Invocation(JStr("7"), "select-api-version", JStr("x")),
         Invocation(JStr("7"), "select-api-version", JStr("xy")),
         Invocation(JStr("8"), "update-key-info", JNull),
         Invocation(JStr("8"), "update-key-info", JMap(<<JEntry("x", JNum(5))>>)),
         Reply(JStr("1"), "ok", Selections),
         Reply(JStr("1"), "maybe", JNull),
         JSeq(<<JStr("notify")>>),
         JSeq(<<JStr("notify"), JStr("7"), JStr("update-key-info"), JSeq(<<>>)>>)}}

NextShapes ==
    \/ \E w \in ShapeFrames : PeerSend(w)
    \/ HandleNextChunk
    \/ MainInvoke
    \/ \E r \in Answers : Answer(r)

SpecShapes == Init /\ [][NextShapes]_vars

\* A message that get_chunk decodes and that is neither a well-formed
\* Invocation nor a well-formed Reply.
Malformed(w) ==
    /\ get_chunk(w).ok
    /\ ~WellFormedInvocation(w)
    /\ ~(IsReply(w) /\ w.data.e[3] \in {JStr("ok"), JStr("fail")})

\* C17: reading a malformed message ends the session; no frame is written,
\* no continuation runs, no handler returns, is answered or is left waiting.
C17_MalformedMessageFatal ==
    [][(inbox # <<>> /\ handled' # handled /\ Malformed(Head(inbox))) =>
          /\ status' = "crashed"
          /\ sent' = sent
          /\ ran' = ran
          /\ stack' = stack
          /\ \A i \in 1..Len(served') :
                i > Len(served) => served'[i].outcome = "raised"]_vars

\* A reply, of whatever outcome, whose ticket is a key of the table cbs.
PendingReply(w, cbs) ==
    /\ IsReply(w)
    /\ w.data.e[2].k = "string"
    /\ w.data.e[2].s \in DOMAIN cbs

\* C18: processing a reply for the pending ticket T takes the entry of T,
\* and no other, out of the callbacks table and leaves the ticket counter
\* alone, whatever the outcome; a continuation that runs no longer finds T
\* in the table.
C18_ReplyRemovesOnlyItsTicket ==
    [][(inbox # <<>> /\ handled' # handled /\ PendingReply(Head(inbox), callbacks)) =>
          LET T == Head(inbox).data.e[2].s IN
          /\ DOMAIN callbacks' = DOMAIN callbacks \ {T}
          /\ \A t \in DOMAIN callbacks' : callbacks'[t] = callbacks[t]
          /\ next_ticket' = next_ticket
          /\ Len(resolved') = Len(resolved) + 1
          /\ resolved'[Len(resolved')].ticket = T
          /\ \A j \in 1..Len(ran') : j > Len(ran) => T \notin ran'[j].pending]_vars

\* A continuation ran while another ticket was pending, and a fail reply
\* was processed too.
C18_Witness ==
    /\ \E j \in 1..Len(ran) : ran[j].pending # {} /\ ran[j].ticket \notin ran[j].pending
    /\ \E i \in 1..Len(resolved) : resolved[i].outcome = JStr("fail")

\* C19: every invocation frame written carries a ticket that was a key of
\* the callbacks table when the frame was written, and that is a key of it
\* still unless a reply for it has been processed.
C19_RegisteredBeforeWritten ==
    \A i \in 1..Len(sent) :
        IsInvocation(sent[i]) =>
            LET T == sent[i].data.e[2].s IN
            /\ T \in tabled[i]
            /\ \/ T \in DOMAIN callbacks
               \/ \E n \in 1..Len(resolved) : resolved[n].ticket = T

\* Invocations written by the main program and from inside a handler, one
\* of them answered, another still pending.
C19_Witness ==
    /\ \E i \in 1..Len(sent) :
          IsInvocation(sent[i]) /\ sent[i].data.e[2].s \in DOMAIN callbacks
    /\ \E i \in 1..Len(sent) :
          /\ IsInvocation(sent[i])
          /\ \E n \in 1..Len(resolved) : resolved[n].ticket = sent[i].data.e[2].s
    /\ \E t \in DOMAIN issuer : issuer[t].who = "main"
    /\ \E t \in DOMAIN issuer : issuer[t].who # "main"

\* C20: a confirm-keys call that returned did so on an explicit answer:
\* all the offered keys on "Y" or "y", no key on "N" or "n", and on no
\* other line, the empty one included.
C20_ConfirmKeysNeedsAnswer ==
    \A i \in 1..Len(served) :
        (served[i].kind = "prompt" /\ served[i].outcome = "ok") =>
            /\ served[i].answer \in {"Y", "y", "N", "n"}
            /\ served[i].answer \in {"Y", "y"} =>
                  served[i].val = JSeq(Iter(served[i].args.e[2]).val)
            /\ served[i].answer \in {"N", "n"} => served[i].val = JSeq(<<>>)

====
